---- MODULE Spec2Model ----
(***************************************************************************)
(* A model of package errgroup (errgroup.go): one group, its cancellable   *)
(* context, its WaitGroup, its semaphore channel and its error cell, used  *)
(* by a few caller goroutines and by the goroutines Go and TryGo start.    *)
(*                                                                         *)
(* Every action is one step on the shared state of the group.  A call that *)
(* touches the shared state several times is several actions, so that the  *)
(* other goroutines interleave with it as the Go scheduler lets them.      *)
(* g.sem is read and written without synchronisation: Go, TryGo and done() *)
(* read it once, in a step of their own, and go on with the channel they   *)
(* have read whatever a later SetLimit puts in g.sem.                      *)
(*                                                                         *)
(* A goroutine parked on a channel is woken by the operation that meets    *)
(* it: a receive completes the send of a parked sender, a send hands its   *)
(* token to a parked receiver, as the Go runtime does.                     *)
(***************************************************************************)
EXTENDS Integers, Sequences, FiniteSets, TLC

\* Bounds of the model.
MaxTasks == 2      \* goroutines started by Go and TryGo in one run

\* The nil error, and the nil channel.
Nil == 0

\* What the function of a subtask does: it fails (returns a non-nil error) or
\* not.  The error of a failing subtask is its own: subtask t returns error t,
\* as the tests' err1 and err2.
Outcomes == {FALSE, TRUE}

\* The goroutines that call the methods of the group.
Callers == {"a", "b"}

\* The arguments of SetLimit: a negative value removes the limit.
Limits == {0 - 1, 0, 1}

\* Names for the channels SetLimit makes: one for g.sem and one for every
\* goroutine that can be parked on a replaced channel.
ChanNames == 1..(1 + Cardinality(Callers) + MaxTasks)

VARIABLES
    sem,        \* g.sem: Nil, or the name of a channel in chans
    chans,      \* the channels made by SetLimit that are still reachable: cap and len
    wg,         \* the counter of g.wg
    errOnce,    \* g.errOnce: "new", "running" (inside Do) or "done"
    err,        \* g.err
    ctxDone,    \* whether g.ctx.Done() is closed
    parentDone, \* whether the parent context's Done() is closed
    tasks,      \* the goroutines started so far, in the order they were started
    callers,    \* where each caller is in the method it is calling
    panicked,   \* SetLimit has panicked: the program is gone
    hist        \* history, read by no action:
                \*   first: the first goroutine to enter errOnce.Do (0: none yet)
                \*   quiet: no subtask was active and no Go was in progress
                \*          when the semaphore in place (or its absence) was
                \*          set, by New or by SetLimit

vars == <<sem, chans, wg, errOnce, err, ctxDone, parentDone, tasks, callers,
          panicked, hist>>

\* A caller that is in no method and holds no result.
Idle == [pc |-> "idle", op |-> "none", arg |-> FALSE, ch |-> Nil, ok |-> FALSE, ret |-> Nil]

\* A caller can start a call: it is in no method (the result of its last call
\* may still be in its hands).
Ready(c) == callers[c].pc \in {"idle", "ret"}

\* The callers that are inside Go and have not started their subtask: parked
\* in the send, or woken from it and before g.wg.Add(1).
Submitting == {c \in Callers : callers[c].pc \in {"goSend", "goAdd"}}

\* A new submission fits the bound of the model.
Room == Len(tasks) + Cardinality(Submitting) < MaxTasks

\* The channels a goroutine is parked on: the operand of the send in Go, of
\* the receive in done().
Parked ==
    {callers[c].ch : c \in Callers} \cup {tasks[t].rch : t \in DOMAIN tasks}

\* The channels that can still be reached: g.sem and the parked-on ones.  The
\* others are garbage and leave the model.
Reachable == ({sem} \cup Parked) \ {Nil}

Collect(chs) == [i \in DOMAIN chs \cap Reachable' |-> chs[i]]

\* The goroutines parked in done()'s receive on channel ch.
Receivers(ch) == {t \in DOMAIN tasks : tasks[t].st = "doneRecv" /\ tasks[t].rch = ch}

\* The callers parked in Go's send on channel ch.
Senders(ch) == {c \in Callers : callers[c].pc = "goSend" /\ callers[c].ch = ch}

\* A send on ch can proceed: a receiver is parked on it, or the buffer has
\* room.  A send on the nil channel never proceeds.
CanSend(ch) ==
    /\ ch # Nil
    /\ \/ Receivers(ch) # {}
       \/ chans[ch].len < chans[ch].cap

\* The goroutine of Go/TryGo: it starts by calling f(g.ctx), which fails or not.
Spawn(ts, fails) ==
    Append(ts, [st |-> "run", err |-> IF fails THEN Len(ts) + 1 ELSE Nil, rch |-> Nil])

\* g.sem <- token{} on ch when it can proceed, then g.wg.Add(1) and the go
\* statement.  A parked receiver takes the token from the sender's hands and
\* goes on to its g.wg.Done(); with no receiver the token goes into the
\* buffer.
SendAndStart(ch, fails) ==
    IF Receivers(ch) # {}
      THEN /\ \E t \in Receivers(ch) :
                 tasks' = Spawn([tasks EXCEPT ![t].st = "fin", ![t].rch = Nil], fails)
           /\ wg' = (wg - 1) + 1
           /\ chans' = Collect(chans)
      ELSE /\ tasks' = Spawn(tasks, fails)
           /\ wg' = wg + 1
           /\ chans' = Collect([chans EXCEPT ![ch].len = @ + 1])

\* A group that starts nothing once its context is cancelled.
StartUnlessDone(fails) ==
    /\ tasks' = IF ctxDone THEN tasks ELSE Spawn(tasks, fails)
    /\ wg' = IF ctxDone THEN wg ELSE wg + 1
    /\ UNCHANGED chans

\* A go statement with no g.wg.Add(1) before it.
StartNoAdd(fails) ==
    /\ tasks' = Spawn(tasks, fails)
    /\ UNCHANGED <<wg, chans>>

\* g.wg.Add(1) and the go statement.
Start(fails) ==
    /\ tasks' = Spawn(tasks, fails)
    /\ wg' = wg + 1
    /\ UNCHANGED chans

\* A cancel() that is not idempotent: a second call undoes the first.
CancelToggles == ~ctxDone

\* cancel() of context.WithCancel: closes g.ctx.Done(); a second call is a no-op.
Cancelled == TRUE

\* The subtasks whose function f is executing.
Running == {t \in DOMAIN tasks : tasks[t].st = "run"}

\* The subtasks that are active: started, and g.wg.Done() not yet called.
Active == {t \in DOMAIN tasks : tasks[t].st # "fin"}

\* The subtasks whose function returns a non-nil error.
Failed == {t \in DOMAIN tasks : tasks[t].err # Nil}

\* The error of the first subtask, in the order of submission, that returns
\* a non-nil error; nil if there is none.
FirstFailed ==
    IF Failed = {} THEN Nil
    ELSE tasks[CHOOSE t \in Failed : \A u \in Failed : t <= u].err

\* Every subtask submitted so far has finished, and no Go is parked.
AllFinished == Active = {} /\ Submitting = {}

\* The limit in place: the capacity of g.sem, -1 when g.sem is nil.
Limit == IF sem = Nil THEN 0 - 1 ELSE chans[sem].cap

Init ==
    /\ sem = Nil
    /\ chans = [i \in {} |-> [cap |-> 0, len |-> 0]]
    /\ wg = 0
    /\ errOnce = "new"
    /\ err = Nil
    /\ ctxDone = FALSE
    /\ parentDone = FALSE
    /\ tasks = <<>>
    /\ callers = [c \in Callers |-> Idle]
    /\ panicked = FALSE
    /\ hist = [first |-> 0, quiet |-> TRUE]

\* A group context that is not derived from the parent: the parent's
\* cancellation does not reach it.
ParentCancelNoLink ==
    /\ ~panicked
    /\ ~parentDone
    /\ parentDone' = TRUE
    /\ UNCHANGED <<sem, chans, wg, errOnce, err, ctxDone, tasks, callers, panicked, hist>>

\* The parent context is cancelled: the cancellation reaches g.ctx.
ParentCancel ==
    /\ ~panicked
    /\ ~parentDone
    /\ parentDone' = TRUE
    /\ ctxDone' = Cancelled
    /\ UNCHANGED <<sem, chans, wg, errOnce, err, tasks, callers, panicked, hist>>

\* A caller whose parked send has been completed by a receive: g.wg.Add(1)
\* is next.
Sent(fails) == [Idle EXCEPT !.pc = "goAdd", !.op = "Go", !.arg = fails]

\* Go is called.  With no semaphore it starts the goroutine and returns; with
\* one it sends, or parks in the send when the send cannot proceed.
GoCall(c, fails) ==
    /\ ~panicked
    /\ Ready(c)
    /\ Room
    /\ UNCHANGED sem
    /\ IF sem = Nil
         THEN /\ callers' = [callers EXCEPT ![c] = Idle]
              /\ Start(fails)
         ELSE IF CanSend(sem)
           THEN /\ callers' = [callers EXCEPT ![c] = Idle]
                /\ SendAndStart(sem, fails)
           ELSE /\ callers' = [callers EXCEPT ![c] =
                                 [Idle EXCEPT !.pc = "goSend", !.op = "Go", !.arg = fails, !.ch = sem]]
                /\ UNCHANGED <<tasks, wg, chans>>
    /\ UNCHANGED <<errOnce, err, ctxDone, parentDone, panicked, hist>>

\* What TryGo returns.
TryGoResult(c, started) == [Idle EXCEPT !.pc = "ret", !.op = "TryGo", !.ok = started]

\* TryGo: with no semaphore it starts the goroutine; with one, its select
\* takes the send if the send can proceed now, and the default case if not.
TryGo(c, fails) ==
    /\ ~panicked
    /\ Ready(c)
    /\ Room \/ (sem # Nil /\ ~CanSend(sem))
    /\ UNCHANGED sem
    /\ IF sem = Nil
         THEN /\ callers' = [callers EXCEPT ![c] = TryGoResult(c, TRUE)]
              /\ Start(fails)
         ELSE IF CanSend(sem)
           THEN /\ callers' = [callers EXCEPT ![c] = TryGoResult(c, TRUE)]
                /\ SendAndStart(sem, fails)
           ELSE /\ callers' = [callers EXCEPT ![c] = TryGoResult(c, FALSE)]
                /\ UNCHANGED <<tasks, wg, chans>>
    /\ UNCHANGED <<errOnce, err, ctxDone, parentDone, panicked, hist>>

\* A Go woken from its send: g.wg.Add(1) and the go statement; Go returns.
GoStart(c) ==
    /\ ~panicked
    /\ callers[c].pc = "goAdd"
    /\ callers' = [callers EXCEPT ![c] = Idle]
    /\ Start(callers[c].arg)
    /\ UNCHANGED <<sem, errOnce, err, ctxDone, parentDone, panicked, hist>>

\* SetLimit's test: it panics when the semaphore in place holds tokens.
SetLimitPanics(n) == n >= 0 /\ sem # Nil /\ chans[sem].len # 0

\* The names left for a channel made now: g.sem is about to be overwritten.
FreeNames == ChanNames \ Parked

\* A SetLimit that makes the channel one slot too large.
SetLimitOneMore(c, n) ==
    /\ ~panicked
    /\ Ready(c)
    /\ callers' = [callers EXCEPT ![c] = Idle]
    /\ UNCHANGED tasks
    /\ IF n < 0
         THEN /\ sem' = Nil
              /\ chans' = Collect(chans)
              /\ hist' = [hist EXCEPT !.quiet = (Active = {} /\ Submitting = {})]
              /\ UNCHANGED panicked
         ELSE IF SetLimitPanics(n)
           THEN /\ panicked' = TRUE
                /\ UNCHANGED <<sem, chans, hist>>
           ELSE /\ LET new == CHOOSE i \in FreeNames : \A j \in FreeNames : i <= j
                   IN  /\ sem' = new
                       /\ chans' = Collect([i \in DOMAIN chans \cup {new} |->
                                              IF i = new THEN [cap |-> n + 1, len |-> 0] ELSE chans[i]])
                /\ hist' = [hist EXCEPT !.quiet = (Active = {} /\ Submitting = {})]
                /\ UNCHANGED panicked
    /\ UNCHANGED <<wg, errOnce, err, ctxDone, parentDone>>

\* SetLimit(n).
SetLimit(c, n) ==
    /\ ~panicked
    /\ Ready(c)
    /\ callers' = [callers EXCEPT ![c] = Idle]
    /\ UNCHANGED tasks
    /\ IF n < 0
         THEN /\ sem' = Nil
              /\ chans' = Collect(chans)
              /\ hist' = [hist EXCEPT !.quiet = (Active = {} /\ Submitting = {})]
              /\ UNCHANGED panicked
         ELSE IF SetLimitPanics(n)
           THEN /\ panicked' = TRUE
                /\ UNCHANGED <<sem, chans, hist>>
           ELSE /\ LET new == CHOOSE i \in FreeNames : \A j \in FreeNames : i <= j
                   IN  /\ sem' = new
                       /\ chans' = Collect([i \in DOMAIN chans \cup {new} |->
                                              IF i = new THEN [cap |-> n, len |-> 0] ELSE chans[i]])
                /\ hist' = [hist EXCEPT !.quiet = (Active = {} /\ Submitting = {})]
                /\ UNCHANGED panicked
    /\ UNCHANGED <<wg, errOnce, err, ctxDone, parentDone>>

\* Wait is called: the caller is in g.wg.Wait().
WaitCall(c) ==
    /\ ~panicked
    /\ Ready(c)
    /\ callers' = [callers EXCEPT ![c] = [Idle EXCEPT !.pc = "waitBlock", !.op = "Wait"]]
    /\ UNCHANGED <<sem, chans, wg, errOnce, err, ctxDone, parentDone, tasks, panicked, hist>>

\* A g.wg.Wait() that returns whatever the counter is.
WaitPassEarly(c) ==
    /\ ~panicked
    /\ callers[c].pc = "waitBlock"
    /\ callers' = [callers EXCEPT ![c].pc = "waitRet"]
    /\ UNCHANGED <<sem, chans, wg, errOnce, err, ctxDone, parentDone, tasks, panicked, hist>>

\* g.wg.Wait() returns in Wait: the counter is zero.
WaitPass(c) ==
    /\ ~panicked
    /\ callers[c].pc = "waitBlock"
    /\ wg = 0
    /\ callers' = [callers EXCEPT ![c].pc = "waitRet"]
    /\ UNCHANGED <<sem, chans, wg, errOnce, err, ctxDone, parentDone, tasks, panicked, hist>>

\* A Wait that returns g.err without calling g.cancel().
WaitReturnNoCancel(c) ==
    /\ ~panicked
    /\ callers[c].pc = "waitRet"
    /\ callers' = [callers EXCEPT ![c].pc = "ret", ![c].ret = err]
    /\ UNCHANGED <<sem, chans, wg, errOnce, err, ctxDone, parentDone, tasks, panicked, hist>>

\* The end of Wait: g.cancel(); return g.err.
WaitReturn(c) ==
    /\ ~panicked
    /\ callers[c].pc = "waitRet"
    /\ ctxDone' = Cancelled
    /\ callers' = [callers EXCEPT ![c].pc = "ret", ![c].ret = err]
    /\ UNCHANGED <<sem, chans, wg, errOnce, err, parentDone, tasks, panicked, hist>>

\* A Cancel that goes to g.wg.Wait() without calling g.cancel().
CancelCallNoCancel(c) ==
    /\ ~panicked
    /\ Ready(c)
    /\ callers' = [callers EXCEPT ![c] = [Idle EXCEPT !.pc = "cancelBlock", !.op = "Cancel"]]
    /\ UNCHANGED <<sem, chans, wg, errOnce, err, ctxDone, parentDone, tasks, panicked, hist>>

\* Cancel is called: g.cancel(), then the caller is in g.wg.Wait().
CancelCall(c) ==
    /\ ~panicked
    /\ Ready(c)
    /\ ctxDone' = Cancelled
    /\ callers' = [callers EXCEPT ![c] = [Idle EXCEPT !.pc = "cancelBlock", !.op = "Cancel"]]
    /\ UNCHANGED <<sem, chans, wg, errOnce, err, parentDone, tasks, panicked, hist>>

\* g.wg.Wait() returns in Cancel: the counter is zero.
CancelPass(c) ==
    /\ ~panicked
    /\ callers[c].pc = "cancelBlock"
    /\ wg = 0
    /\ callers' = [callers EXCEPT ![c].pc = "cancelRet"]
    /\ UNCHANGED <<sem, chans, wg, errOnce, err, ctxDone, parentDone, tasks, panicked, hist>>

\* The end of Cancel: return g.err.
CancelReturn(c) ==
    /\ ~panicked
    /\ callers[c].pc = "cancelRet"
    /\ callers' = [callers EXCEPT ![c].pc = "ret", ![c].ret = err]
    /\ UNCHANGED <<sem, chans, wg, errOnce, err, ctxDone, parentDone, tasks, panicked, hist>>

\* An error cell with no sync.Once around it: every failing goroutine writes
\* g.err and calls g.cancel().
OnceDoOverwrite(t) ==
    /\ errOnce # "running"
    /\ errOnce' = "running"
    /\ err' = tasks[t].err
    /\ tasks' = [tasks EXCEPT ![t].st = "cancel"]

\* An errOnce.Do whose function calls g.cancel() without recording the error.
OnceDoSilent(t) ==
    /\ errOnce # "running"
    /\ IF errOnce = "new"
         THEN /\ errOnce' = "running"
              /\ tasks' = [tasks EXCEPT ![t].st = "cancel"]
              /\ UNCHANGED err
         ELSE /\ tasks' = [tasks EXCEPT ![t].st = "done"]
              /\ UNCHANGED <<errOnce, err>>

\* An errOnce.Do that lets a later caller return while the first one is
\* still inside.
OnceDoNoWait(t) ==
    IF errOnce = "new"
      THEN /\ errOnce' = "running"
           /\ err' = tasks[t].err
           /\ tasks' = [tasks EXCEPT ![t].st = "cancel"]
      ELSE /\ tasks' = [tasks EXCEPT ![t].st = "done"]
           /\ UNCHANGED <<errOnce, err>>

\* errOnce.Do entered by goroutine t, whose f returned a non-nil error: the
\* first one in writes g.err, the later ones return at once.  Nobody enters
\* while the first one is inside.
OnceDo(t) ==
    /\ errOnce # "running"
    /\ IF errOnce = "new"
         THEN /\ errOnce' = "running"
              /\ err' = tasks[t].err
              /\ tasks' = [tasks EXCEPT ![t].st = "cancel"]
         ELSE /\ tasks' = [tasks EXCEPT ![t].st = "done"]
              /\ UNCHANGED <<errOnce, err>>

\* A goroutine that goes to errOnce.Do whatever f returned.
TaskReturnAlways(t) ==
    /\ ~panicked
    /\ t \in DOMAIN tasks
    /\ tasks[t].st = "run"
    /\ OnceDo(t)
    /\ hist' = [hist EXCEPT !.first = IF @ = 0 THEN t ELSE @]
    /\ UNCHANGED <<sem, chans, wg, ctxDone, parentDone, callers, panicked>>

\* f returns in goroutine t; a non-nil error goes to errOnce.Do.
TaskReturn(t) ==
    /\ ~panicked
    /\ t \in DOMAIN tasks
    /\ tasks[t].st = "run"
    /\ IF tasks[t].err # Nil
         THEN /\ OnceDo(t)
              /\ hist' = [hist EXCEPT !.first = IF @ = 0 THEN t ELSE @]
         ELSE /\ tasks' = [tasks EXCEPT ![t].st = "done"]
              /\ UNCHANGED <<errOnce, err, hist>>
    /\ UNCHANGED <<sem, chans, wg, ctxDone, parentDone, callers, panicked>>

\* The g.cancel() inside errOnce.Do, and the end of Do.
TaskCancel(t) ==
    /\ ~panicked
    /\ t \in DOMAIN tasks
    /\ tasks[t].st = "cancel"
    /\ ctxDone' = Cancelled
    /\ errOnce' = "done"
    /\ tasks' = [tasks EXCEPT ![t].st = "done"]
    /\ UNCHANGED <<sem, chans, wg, err, parentDone, callers, panicked, hist>>

\* done() reads g.sem: with no semaphore it goes on to g.wg.Done(); with one
\* it receives from it and goes on to g.wg.Done(), or parks in the receive
\* when there is nothing to receive.  A receive that meets a parked sender
\* completes that send: the buffer stays as full as it was.
DoneCall(t) ==
    /\ ~panicked
    /\ t \in DOMAIN tasks
    /\ tasks[t].st = "done"
    /\ UNCHANGED sem
    /\ IF sem = Nil
         THEN /\ tasks' = [tasks EXCEPT ![t].st = "fin"]
              /\ wg' = wg - 1
              /\ UNCHANGED <<chans, callers>>
         ELSE IF Senders(sem) # {}
           THEN /\ \E c \in Senders(sem) :
                      callers' = [callers EXCEPT ![c] = Sent(callers[c].arg)]
                /\ tasks' = [tasks EXCEPT ![t].st = "fin"]
                /\ wg' = wg - 1
                /\ chans' = Collect(chans)
           ELSE IF chans[sem].len > 0
             THEN /\ UNCHANGED callers
                  /\ tasks' = [tasks EXCEPT ![t].st = "fin"]
                  /\ wg' = wg - 1
                  /\ chans' = Collect([chans EXCEPT ![sem].len = @ - 1])
             ELSE /\ tasks' = [tasks EXCEPT ![t].st = "doneRecv", ![t].rch = sem]
                  /\ UNCHANGED <<wg, chans, callers>>
    /\ UNCHANGED <<errOnce, err, ctxDone, parentDone, panicked, hist>>

Next ==
    \/ \E c \in Callers, fails \in Outcomes : GoCall(c, fails)
    \/ \E c \in Callers, fails \in Outcomes : TryGo(c, fails)
    \/ \E c \in Callers : GoStart(c)
    \/ \E c \in Callers, n \in Limits : SetLimit(c, n)
    \/ \E c \in Callers : WaitCall(c)
    \/ \E c \in Callers : WaitPass(c)
    \/ \E c \in Callers : WaitReturn(c)
    \/ \E c \in Callers : CancelCall(c)
    \/ \E c \in Callers : CancelPass(c)
    \/ \E c \in Callers : CancelReturn(c)
    \/ \E t \in 1..MaxTasks : TaskReturn(t)
    \/ \E t \in 1..MaxTasks : TaskCancel(t)
    \/ \E t \in 1..MaxTasks : DoneCall(t)

\* The group of a parent that is never cancelled: context.Background(), as
\* in the tests.
Spec == Init /\ [][Next]_vars

\* The group of a parent that can be cancelled at any time.
NextParent ==
    \/ Next
    \/ ParentCancel

SpecParent == Init /\ [][NextParent]_vars

\* The steps of the goroutine of subtask t, and the steps a caller takes
\* inside a call once it can go on.
TaskStep(t) == TaskReturn(t) \/ TaskCancel(t) \/ DoneCall(t)

CallerStep(c) ==
    GoStart(c) \/ WaitPass(c) \/ WaitReturn(c) \/ CancelPass(c) \/ CancelReturn(c)

\* Fair scheduling: a goroutine that can take a step takes it in the end; the
\* function of every started subtask returns.  Nothing makes the callers
\* call a method.
Fairness ==
    /\ \A t \in 1..MaxTasks : WF_vars(TaskStep(t))
    /\ \A c \in Callers : WF_vars(CallerStep(c))

SpecFair == Spec /\ Fairness

(***************************************************************************)
(* The claims.                                                             *)
(***************************************************************************)

\* The result a caller holds: the last call it made was op and has returned.
Holds(c, op) == callers[c].pc = "ret" /\ callers[c].op = op

\* C1, as stated: when Wait returns after every submitted subtask has
\* finished, it returns the error of the first subtask, in the order of
\* submission, that returned a non-nil error, or nil if none did.
C1_FirstBySubmission ==
    [][\A c \in Callers :
         WaitReturn(c) /\ AllFinished => callers'[c].ret = FirstFailed]_vars

\* C1, amended: Wait returns the error of the first failing subtask to enter
\* errOnce.Do, whatever the order of submission; and when every submitted
\* subtask has finished, it returns nil exactly when no subtask failed.
C1_FirstAtGate ==
    [][\A c \in Callers :
         WaitReturn(c) =>
           /\ callers'[c].ret = IF hist.first = 0 THEN Nil ELSE tasks[hist.first].err
           /\ AllFinished => (callers'[c].ret = Nil <=> Failed = {})]_vars

\* Two subtasks failed, both have finished, and Wait has returned the error
\* of the second one.
C1_Witness ==
    \E c \in Callers :
      /\ Holds(c, "Wait")
      /\ AllFinished
      /\ Failed = {1, 2}
      /\ callers[c].ret = tasks[2].err

\* C2: a caller that holds the result of Wait sees Done fired, and Done once
\* fired stays fired: so Done is fired in every state after a Wait call has
\* returned, whether or not a subtask failed or was ever submitted.
C2_DoneAfterWait ==
    [][/\ \A c \in Callers : Holds(c, "Wait")' => ctxDone'
       /\ ctxDone => ctxDone']_vars

\* Wait has returned nil on a group no subtask was ever submitted to.
C2_Witness ==
    \E c \in Callers :
      Holds(c, "Wait") /\ tasks = <<>> /\ callers[c].ret = Nil /\ ctxDone

\* C3, as stated: with a limit K >= 0 in place, at most K subtasks execute
\* their function at the same time.
C3_AtMostLimit ==
    sem # Nil => Cardinality(Running) <= chans[sem].cap

\* C4, as stated: TryGo returns true exactly when it started the subtask; it
\* returns false exactly when a limit is in place and all its slots are
\* occupied, and then it changes nothing; with limit K and K running subtasks
\* it returns false.
C4_TryGo ==
    [][\A c \in Callers, fails \in Outcomes :
         TryGo(c, fails) =>
           /\ Holds(c, "TryGo")'
           /\ callers'[c].ok <=> Len(tasks') = Len(tasks) + 1
           /\ ~callers'[c].ok <=> (sem # Nil /\ chans[sem].len = chans[sem].cap)
           /\ ~callers'[c].ok => UNCHANGED <<tasks, wg, chans>>
           /\ (sem # Nil /\ Cardinality(Running) >= chans[sem].cap) => ~callers'[c].ok]_vars

\* C5, as stated: with the limit 0 in place every TryGo returns false and
\* starts nothing, every Go parks in its send, and a Go parked on a channel
\* of capacity 0 never starts its subtask.
C5_LimitZero ==
    [][\A c \in Callers :
         /\ \A fails \in Outcomes :
              TryGo(c, fails) /\ Limit = 0 => ~callers'[c].ok /\ tasks' = tasks
         /\ \A fails \in Outcomes :
              GoCall(c, fails) /\ Limit = 0 => callers'[c].pc = "goSend" /\ tasks' = tasks
         /\ (callers[c].pc = "goSend" /\ callers'[c].pc # "goSend") =>
              chans[callers[c].ch].cap # 0]_vars

\* C6, as stated: SetLimit called while a subtask is active panics and
\* leaves the semaphore as it is, for every n.
C6_PanicsWhenActive ==
    [][\A c \in Callers, n \in Limits :
         SetLimit(c, n) /\ Active # {} => panicked' /\ UNCHANGED <<sem, chans>>]_vars

C8_WriteOnce ==
    [][/\ err # Nil => err' = err
       /\ \A t \in DOMAIN tasks :
            TaskReturn(t) /\ errOnce # "new" =>
              err' = err /\ ctxDone' = ctxDone /\ tasks'[t].st = "done"
       /\ \A t \in DOMAIN tasks' : tasks'[t].st = "cancel" => hist'.first = t]_vars

\* Two subtasks have failed and both are past errOnce.Do: g.err is the error
\* of the first one in.
C8_Witness ==
    /\ Failed = {1, 2}
    /\ \A t \in Failed : tasks[t].st \in {"done", "doneRecv", "fin"}
    /\ err = tasks[hist.first].err

\* C9: Cancel fires Done at once, goes past its wait only with the counter
\* at zero, returns g.err as it is then, and never writes g.err; Done stays
\* fired.
C9_Cancel ==
    [][\A c \in Callers :
         /\ CancelCall(c) => ctxDone' /\ callers'[c].pc = "cancelBlock" /\ err' = err
         /\ (callers[c].pc = "cancelBlock" /\ callers'[c].pc # "cancelBlock") =>
              wg = 0 /\ err' = err /\ ctxDone'
         /\ (callers[c].pc = "cancelRet" /\ callers'[c].pc # "cancelRet") =>
              Holds(c, "Cancel")' /\ callers'[c].ret = err /\ err' = err /\ ctxDone'
         /\ callers'[c].op = "Cancel" => ctxDone']_vars

\* A subtask was submitted, no subtask failed, every subtask has finished,
\* and Cancel has returned nil with Done fired.
C9_Witness ==
    \E c \in Callers :
      /\ Holds(c, "Cancel")
      /\ callers[c].ret = Nil
      /\ tasks # <<>>
      /\ AllFinished
      /\ ctxDone

\* C10: Done once fired is fired in every later state: a further trigger (a
\* failing subtask, Cancel, the end of Wait, the parent's cancellation)
\* leaves it fired.
C10_Monotonic ==
    [][ctxDone => ctxDone']_vars

\* Done is fired, and after it fired the parent was cancelled, Cancel
\* returned and a subtask failed.
C10_Witness ==
    /\ ctxDone
    /\ parentDone
    /\ err # Nil
    /\ \E c \in Callers : Holds(c, "Cancel")

\* C11: once the parent is cancelled Done is fired, and a step that fires
\* Done from the group's side (a failing subtask's cancel, Cancel, the end of
\* Wait) leaves the parent as it is.
C11_OneWayLink ==
    [][/\ parentDone' => ctxDone'
       /\ \A c \in Callers : WaitReturn(c) \/ CancelCall(c) => parentDone' = parentDone
       /\ \A t \in DOMAIN tasks : TaskCancel(t) => parentDone' = parentDone]_vars

\* Done was fired by a failing subtask, Cancel has returned, and the parent
\* is not cancelled.
C11_Witness ==
    /\ ctxDone
    /\ ~parentDone
    /\ err # Nil
    /\ errOnce = "done"
    /\ \E c \in Callers : Holds(c, "Cancel")

\* C12: g.wg.Wait() in Wait returns only with the counter at zero and every
\* subtask started so far finished, and a finished subtask stays finished: so
\* no subtask started before the Wait call is unfinished when Wait returns.
C12_WaitBlocks ==
    [][/\ \A c \in Callers :
            callers[c].pc = "waitBlock" /\ callers'[c].pc # "waitBlock" =>
              wg = 0 /\ Active = {}
       /\ \A t \in DOMAIN tasks : tasks[t].st = "fin" => tasks'[t].st = "fin"]_vars

\* A Wait is past g.wg.Wait() on a group whose two subtasks have finished.
C12_Witness ==
    /\ Len(tasks) = MaxTasks
    /\ Active = {}
    /\ \E c \in Callers : callers[c].pc = "waitRet"

\* C13, as stated: under fair scheduling the counter of g.wg comes back to
\* zero, and a caller blocked in Wait or in Cancel gets its result, unless
\* SetLimit panics.
C13_WaitReturns ==
    /\ (wg > 0) ~> (wg = 0 \/ panicked)
    /\ \A c \in Callers :
         (callers[c].pc \in {"waitBlock", "cancelBlock"}) ~> (callers[c].pc = "ret" \/ panicked)

\* C14: when Wait or Cancel returns after every submitted subtask has
\* finished, it returns nil exactly when no subtask failed, and otherwise the
\* error of one of the failed subtasks.
C14_OneErrorSurvives ==
    [][\A c \in Callers :
         (WaitReturn(c) \/ CancelReturn(c)) /\ AllFinished =>
           /\ callers'[c].ret = Nil <=> Failed = {}
           /\ callers'[c].ret # Nil => \E t \in Failed : callers'[c].ret = tasks[t].err]_vars

\* Two subtasks failed and have finished; Wait and Cancel have both returned
\* the same one of the two errors.
C14_Witness ==
    /\ Failed = {1, 2}
    /\ AllFinished
    /\ \E c, d \in Callers :
         /\ Holds(c, "Wait")
         /\ Holds(d, "Cancel")
         /\ callers[c].ret = callers[d].ret
         /\ callers[c].ret \in {tasks[1].err, tasks[2].err}

\* C15: in every state the counter of g.wg is the number of subtasks that
\* have been started and have not finished, and it is not negative: each
\* start adds one before the subtask runs, each finish takes one away.
C15_PendingCount ==
    /\ wg = Cardinality(Active)
    /\ wg >= 0

\* One subtask has finished and one is running: the counter is 1.
C15_Witness ==
    /\ Len(tasks) = MaxTasks
    /\ Cardinality(Running) = 1
    /\ Cardinality(Active) = 1
    /\ wg = 1

\* C16, as stated: the slot done() releases is the one the submission of its
\* subtask took from the same gate.  The token of that slot is then in the
\* gate when done() comes to take it out: done() never has to wait in its
\* receive for a token.
C16_ReleasesOwnSlot ==
    [][\A t \in DOMAIN tasks : DoneCall(t) => tasks'[t].st = "fin"]_vars

\* C17: a step that fires Done is a call of Cancel, the end of a Wait, the
\* parent's cancellation, or finds g.err already non-nil; and in every state
\* a failed subtask that has finished, the first to fail or not, sees g.err
\* non-nil and Done fired.
C17_WriteBeforeCancel ==
    [][/\ ~ctxDone /\ ctxDone' =>
            \/ err # Nil
            \/ ParentCancel
            \/ \E c \in Callers : CancelCall(c) \/ WaitReturn(c)
       /\ \A t \in DOMAIN tasks' :
            tasks'[t].st = "fin" /\ tasks'[t].err # Nil => err' # Nil /\ ctxDone']_vars

\* Two subtasks failed and have finished, the second one after losing the
\* race for errOnce; Done is fired, the parent is not cancelled and no
\* caller is in Wait or Cancel or holds their result.
C17_Witness ==
    /\ Failed = {1, 2}
    /\ Active = {}
    /\ hist.first = 1
    /\ ctxDone
    /\ ~parentDone
    /\ \A c \in Callers : callers[c] = Idle

\* The gate in place has a free slot.
FreeSlot == sem # Nil /\ chans[sem].len < chans[sem].cap

\* C18, as stated: a Go blocked in its send leaves it only in a step in which
\* a subtask finishes; and under fair scheduling, once a subtask has finished
\* and the gate in place has a free slot, a blocked Go gets past its send,
\* unless the slot is taken again first.
C18_BlockedGoProceeds ==
    /\ [][\A c \in Callers :
            callers[c].pc = "goSend" /\ callers'[c].pc # "goSend" =>
              \E t \in DOMAIN tasks : tasks[t].st = "done" /\ tasks'[t].st = "fin"]_vars
    /\ \A c \in Callers :
         (callers[c].pc = "goSend" /\ FreeSlot /\ Active # DOMAIN tasks)
           ~> (callers[c].pc # "goSend" \/ ~FreeSlot \/ panicked)

\* C19: a step that fires Done is the parent's cancellation, a call of
\* Cancel, the end of a Wait that went past g.wg.Wait() with the counter at
\* zero, or the g.cancel() of a subtask that returned a non-nil error; no
\* other step (a subtask that succeeds, TryGo returning false, SetLimit)
\* fires it.
C19_NoSpuriousDone ==
    [][/\ ~ctxDone /\ ctxDone' =>
            \/ ParentCancel
            \/ \E c \in Callers : CancelCall(c) \/ WaitReturn(c)
            \/ \E t \in DOMAIN tasks : TaskCancel(t) /\ tasks[t].err # Nil
       /\ \A c \in Callers :
            callers'[c].pc = "waitRet" /\ callers[c].pc # "waitRet" => wg = 0]_vars

\* Subtasks were submitted and none failed, a TryGo has returned false, the
\* parent is not cancelled: Done is fired, by a Wait that has returned.
C19_Witness ==
    /\ ctxDone
    /\ ~parentDone
    /\ tasks # <<>>
    /\ Failed = {}
    /\ \E c, d \in Callers :
         /\ Holds(c, "Wait")
         /\ Holds(d, "TryGo")
         /\ ~callers[d].ok

\* C20: with Done fired, as it is once a Wait has returned, a Go or TryGo
\* that finds no limit or a free slot still starts its subtask, with Done
\* still fired; a Wait goes past g.wg.Wait() only when every started subtask
\* has finished and returns g.err; g.err once recorded stays, and a failing
\* subtask that finds g.err nil records its own error.
C20_ReusableAfterWait ==
    [][ctxDone =>
         /\ ctxDone'
         /\ \A c \in Callers, fails \in Outcomes :
              (sem = Nil \/ CanSend(sem)) /\ (GoCall(c, fails) \/ TryGo(c, fails)) =>
                /\ Len(tasks') = Len(tasks) + 1
                /\ tasks'[Len(tasks')].st = "run"
                /\ Holds(c, "TryGo")' => callers'[c].ok
         /\ \A c \in Callers :
              /\ callers[c].pc = "waitBlock" /\ callers'[c].pc # "waitBlock" => Active = {}
              /\ callers[c].pc = "waitRet" /\ callers'[c].pc # "waitRet" =>
                   Holds(c, "Wait")' /\ callers'[c].ret = err
         /\ err # Nil => err' = err
         /\ \A t \in DOMAIN tasks :
              tasks[t].st = "run" /\ tasks'[t].st # "run" /\ tasks[t].err # Nil /\ err = Nil =>
                err' = tasks[t].err]_vars

\* A Wait has returned nil, on a group whose first subtask succeeded; the
\* second subtask failed and has finished, and another Wait has returned
\* its error.
C20_Witness ==
    /\ Len(tasks) = MaxTasks
    /\ Failed = {2}
    /\ Active = {}
    /\ \E c, d \in Callers :
         /\ Holds(c, "Wait") /\ callers[c].ret = Nil
         /\ Holds(d, "Wait") /\ callers[d].ret = tasks[2].err

====
